---- MODULE Spec2Model ----
(***************************************************************************)
(* A model of rnix-lsp's src/utils.rs: the position mapper (lookup_pos,    *)
(* offset_to_pos, range), the cursor resolver (ident_at), the scope        *)
(* builder (populate, scope_for) and the selection range builder           *)
(* (selection_ranges).  All of them are pure functions of a source text    *)
(* and of an immutable syntax tree; each is an operator here, applied by   *)
(* the actions of a specification whose Init draws the inputs.             *)
(*                                                                         *)
(* A text is a sequence of Unicode scalar values; byte offsets are         *)
(* computed from the UTF-8 length of each scalar.                          *)
(***************************************************************************)
EXTENDS Integers, Sequences, FiniteSets, TLC

VARIABLES pc, code, pos, off, back, root, node, offset, cursor, scope, chain

vars == <<pc, code, pos, off, back, root, node, offset, cursor, scope, chain>>

(***************************************************************************)
(* Bounds of the input spaces.                                             *)
(***************************************************************************)
MaxLen == 3
MaxLine == 2
MaxCharacter == 4

(***************************************************************************)
(* Characters.  'a', e-acute, the euro sign and U+1F600 have UTF-8 lengths  *)
(* 1, 2, 3, 4; only U+1F600 lies outside the basic multilingual plane.     *)
(***************************************************************************)
NL == 10

Alphabet == {97, 233, 8364, 128512, NL}

len_utf8(c) == IF c < 128 THEN 1 ELSE IF c < 2048 THEN 2 ELSE IF c < 65536 THEN 3 ELSE 4

len_utf16(c) == IF c < 65536 THEN 1 ELSE 2

RECURSIVE Utf8Len(_)
Utf8Len(s) == IF s = <<>> THEN 0 ELSE len_utf8(Head(s)) + Utf8Len(Tail(s))

RECURSIVE Utf16Len(_)
Utf16Len(s) == IF s = <<>> THEN 0 ELSE len_utf16(Head(s)) + Utf16Len(Tail(s))

Take(s, n) == SubSeq(s, 1, IF n < Len(s) THEN n ELSE Len(s))

(* str::split('\n'): the lines of a text; "" has the one line "". *)
RECURSIVE Split(_)
Split(s) ==
    IF \A i \in 1..Len(s) : s[i] # NL THEN <<s>>
    ELSE LET i == CHOOSE k \in 1..Len(s) : s[k] = NL /\ \A j \in 1..(k - 1) : s[j] # NL
         IN  <<SubSeq(s, 1, i - 1)>> \o Split(SubSeq(s, i + 1, Len(s)))

None == [some |-> FALSE, val |-> 0]

Some(v) == [some |-> TRUE, val |-> v]

Position(l, c) == [line |-> l, character |-> c]

(***************************************************************************)
(* lookup_pos: the for loop consumes pos.line lines (absent when the text  *)
(* runs out of lines), then the closure adds the UTF-8 length of the first  *)
(* pos.character chars of the addressed line.                              *)
(***************************************************************************)
RECURSIVE SkipLines(_, _, _)
SkipLines(lines, n, offs) ==
    IF n = 0 THEN [ok |-> TRUE, lines |-> lines, offset |-> offs]
    ELSE IF lines = <<>> THEN [ok |-> FALSE, lines |-> <<>>, offset |-> offs]
    ELSE SkipLines(Tail(lines), n - 1, offs + Utf8Len(Head(lines)) + 1)

TakeChars(line, n) == Take(line, n)

lookup_pos(text, p) ==
    LET r == SkipLines(Split(text), p.line, 0)
    IN  IF ~r.ok \/ r.lines = <<>> THEN None
        ELSE Some(r.offset + Utf8Len(TakeChars(Head(r.lines), p.character)))

(***************************************************************************)
(* offset_to_pos slices the text at byte offsets, which is defined only    *)
(* on character boundaries inside the text.                                *)
(***************************************************************************)
IsCharBoundary(text, o) == \E k \in 0..Len(text) : Utf8Len(SubSeq(text, 1, k)) = o

BytePrefix(text, o) ==
    LET k == CHOOSE j \in 0..Len(text) : Utf8Len(SubSeq(text, 1, j)) = o
    IN  SubSeq(text, 1, k)

(* code[..offset].rfind('\n').map_or(0, |n| n+1), as a count of chars *)
StartOfLine(prefix) ==
    IF \A i \in 1..Len(prefix) : prefix[i] # NL THEN 0
    ELSE CHOOSE k \in 1..Len(prefix) : prefix[k] = NL /\ \A j \in (k + 1)..Len(prefix) : prefix[j] # NL

CountNewlines(s) == Cardinality({i \in 1..Len(s) : s[i] = NL})

ColumnOf(s) == Utf16Len(s)

offset_to_pos(text, o) ==
    LET prefix == BytePrefix(text, o)
        sol == StartOfLine(prefix)
    IN  Position(CountNewlines(SubSeq(prefix, 1, sol)),
                 ColumnOf(SubSeq(prefix, sol + 1, Len(prefix))))

range(text, r) == [start |-> offset_to_pos(text, r.start), end |-> offset_to_pos(text, r.end)]


(***************************************************************************)
(* Syntax trees.  A tree is a term [kind, text, kids]: a token has a text  *)
(* and no kids, a node has kids and no text of its own.  A node or token   *)
(* handle is the path of child indices leading to it from the root, so two  *)
(* handles are equal exactly when they denote the same node of the tree.   *)
(***************************************************************************)
Tok(k, t) == [kind |-> k, text |-> t, kids |-> <<>>]

Nd(k, ks) == [kind |-> k, text |-> <<>>, kids |-> ks]

TokenKinds == {"TOKEN_IDENT", "TOKEN_INTEGER", "TOKEN_STRING", "TOKEN_DOT", "TOKEN_ASSIGN",
               "TOKEN_SEMICOLON", "TOKEN_CURLY_B_OPEN", "TOKEN_CURLY_B_CLOSE", "TOKEN_REC",
               "TOKEN_LET", "TOKEN_IN", "TOKEN_COLON", "TOKEN_COMMA", "TOKEN_WHITESPACE"}

IsToken(term) == term.kind \in TokenKinds

RECURSIVE At(_, _)
At(t, p) == IF p = <<>> THEN t ELSE At(t.kids[Head(p)], Tail(p))

RECURSIVE AllPaths(_)
AllPaths(t) ==
    {<<>>} \cup UNION {{<<i>> \o q : q \in AllPaths(t.kids[i])} : i \in 1..Len(t.kids)}

NodePaths(t) == {p \in AllPaths(t) : ~IsToken(At(t, p))}

TokenPaths(t) == {p \in AllPaths(t) : IsToken(At(t, p))}

RECURSIVE Text(_)
Text(term) ==
    IF IsToken(term) THEN term.text
    ELSE IF term.kids = <<>> THEN <<>>
    ELSE Text(term.kids[1]) \o Text([term EXCEPT !.kids = Tail(term.kids)])

TextLen(term) == Utf8Len(Text(term))

RECURSIVE StartOf(_, _)
StartOf(t, p) ==
    IF p = <<>> THEN 0
    ELSE Utf8Len(Text([t EXCEPT !.kids = SubSeq(t.kids, 1, Head(p) - 1)]))
         + StartOf(t.kids[Head(p)], Tail(p))

text_range(t, p) == [start |-> StartOf(t, p), end |-> StartOf(t, p) + TextLen(At(t, p))]

NoNode == [some |-> FALSE, val |-> <<>>]

(* SyntaxNode::parent and SyntaxToken::parent *)
parent(p) == IF p = <<>> THEN NoNode ELSE Some(SubSeq(p, 1, Len(p) - 1))

(* SyntaxNode::children: the child nodes, tokens left out, in text order *)
RECURSIVE ChildrenFrom(_, _, _)
ChildrenFrom(t, p, i) ==
    IF i > Len(At(t, p).kids) THEN <<>>
    ELSE (IF IsToken(At(t, p).kids[i]) THEN <<>> ELSE <<p \o <<i>>>>) \o ChildrenFrom(t, p, i + 1)

children(t, p) == ChildrenFrom(t, p, 1)

nth(t, p, n) == IF Len(children(t, p)) > n THEN Some(children(t, p)[n + 1]) ELSE NoNode

KindOf(t, p) == At(t, p).kind

cast(t, o, k) == IF o.some /\ KindOf(t, o.val) = k THEN o ELSE NoNode

RECURSIVE Filter(_, _, _)
Filter(t, ps, k) ==
    IF ps = <<>> THEN <<>>
    ELSE (IF KindOf(t, Head(ps)) = k THEN <<Head(ps)>> ELSE <<>>) \o Filter(t, Tail(ps), k)

(* Ident::as_str: the text of the identifier's token *)
as_str(t, p) == At(t, p).kids[1].text

(* TokenAtOffset: the non-empty tokens that touch the offset *)
token_at_offset(t, o) ==
    LET touching == {p \in TokenPaths(t) :
                        /\ TextLen(At(t, p)) > 0
                        /\ text_range(t, p).start <= o
                        /\ o <= text_range(t, p).end}
    IN  IF touching = {} THEN [kind |-> "None", left |-> <<>>, right |-> <<>>]
        ELSE IF Cardinality(touching) = 1
        THEN [kind |-> "Single", left |-> CHOOSE p \in touching : TRUE, right |-> <<>>]
        ELSE [kind |-> "Between",
              left |-> CHOOSE p \in touching : text_range(t, p).end = o,
              right |-> CHOOSE p \in touching : text_range(t, p).start = o]

(***************************************************************************)
(* ident_at.  The outcome is "some" (a CursorInfo), "none" (an absent      *)
(* result) or "panic" (the panic! after the key path loop).                *)
(***************************************************************************)
CursorSome(path, ident) == [outcome |-> "some", path |-> path, ident |-> ident]

CursorNone == [outcome |-> "none", path |-> <<>>, ident |-> <<>>]

CursorPanic == [outcome |-> "panic", path |-> <<>>, ident |-> <<>>]

Reverse_Unreversed(s) == s

Reverse(s) == [i \in 1..Len(s) |-> s[Len(s) + 1 - i]]

IdentOfToken(t, o) ==
    LET tok == token_at_offset(t, o)
    IN  IF tok.kind = "None" THEN NoNode
        ELSE IF tok.kind = "Single" THEN cast(t, parent(tok.left), "NODE_IDENT")
        ELSE IF cast(t, parent(tok.left), "NODE_IDENT").some
        THEN cast(t, parent(tok.left), "NODE_IDENT")
        ELSE cast(t, parent(tok.right), "NODE_IDENT")

IsCursor_Parent(item, ident) == item = parent(ident).val

IsCursor(item, ident) == item = ident

(* the for loop over attr.path() *)
RECURSIVE KeyWalk(_, _, _, _)
KeyWalk(t, items, path, ident) ==
    IF items = <<>> THEN CursorPanic
    ELSE IF IsCursor(Head(items), ident) THEN CursorSome(path, ident)
    ELSE IF KindOf(t, Head(items)) # "NODE_IDENT" THEN CursorNone
    ELSE KeyWalk(t, Tail(items), Append(path, as_str(t, Head(items))), ident)

(* the end of the Select branch: the base of the chain, then the reversal *)
SelectBase(t, index, path, ident) ==
    LET s == nth(t, index, 0)
    IN  IF ~s.some THEN CursorNone
        ELSE IF s.val # ident
        THEN IF KindOf(t, s.val) # "NODE_IDENT" THEN CursorNone
             ELSE CursorSome(Reverse(Append(path, as_str(t, s.val))), ident)
        ELSE CursorSome(Reverse(path), ident)

(* the while let loop over the nested Select nodes *)
RECURSIVE SelectWalk(_, _, _, _)
SelectWalk(t, index, path, ident) ==
    LET s == nth(t, index, 0)
    IN  IF ~s.some THEN CursorNone
        ELSE IF KindOf(t, s.val) = "NODE_SELECT"
        THEN LET i == nth(t, s.val, 1)
             IN  IF ~i.some \/ KindOf(t, i.val) # "NODE_IDENT" THEN CursorNone
                 ELSE SelectWalk(t, s.val, Append(path, as_str(t, i.val)), ident)
        ELSE SelectBase(t, index, path, ident)

ident_at(t, o) ==
    LET ident == IdentOfToken(t, o)
        par == IF ident.some THEN parent(ident.val) ELSE NoNode
    IN  IF ~ident.some THEN CursorNone
        ELSE IF cast(t, par, "NODE_KEY").some
        THEN KeyWalk(t, children(t, par.val), <<>>, ident.val)
        ELSE IF cast(t, par, "NODE_SELECT").some
        THEN SelectWalk(t, par.val, <<>>, ident.val)
        ELSE CursorSome(<<>>, ident.val)


(***************************************************************************)
(* The trees of the input space, built the way the parser shapes them.     *)
(***************************************************************************)
MaxChain == 3

NameA == <<97>>

NameB == <<98, 98>>

Names == {NameA, NameB}

Dot == Tok("TOKEN_DOT", <<46>>)

Ws == Tok("TOKEN_WHITESPACE", <<32>>)

Newline == Tok("TOKEN_WHITESPACE", <<NL>>)

Ident(n) == Nd("NODE_IDENT", <<Tok("TOKEN_IDENT", n)>>)

Value == Nd("NODE_VALUE", <<Tok("TOKEN_INTEGER", <<49>>)>>)

Str == Nd("NODE_STRING", <<Tok("TOKEN_STRING", <<34, 128512, 34>>)>>)

Select(set, index) == Nd("NODE_SELECT", <<set, Dot, index>>)

RECURSIVE SelectChain(_)
SelectChain(segs) ==
    IF Len(segs) = 1 THEN segs[1]
    ELSE Select(SelectChain(SubSeq(segs, 1, Len(segs) - 1)), segs[Len(segs)])

RECURSIVE Dotted(_)
Dotted(segs) ==
    IF Len(segs) <= 1 THEN segs ELSE <<Head(segs), Dot>> \o Dotted(Tail(segs))

Key(segs) == Nd("NODE_KEY", Dotted(segs))

Opt(x) == IF x.some THEN <<x.val>> ELSE <<>>

KeyValue(k, v) ==
    Nd("NODE_KEY_VALUE", Opt(k) \o <<Tok("TOKEN_ASSIGN", <<61>>)>> \o Opt(v)
                         \o <<Tok("TOKEN_SEMICOLON", <<59>>)>>)

AttrSet(rec, entries) ==
    Nd("NODE_ATTR_SET", (IF rec THEN <<Tok("TOKEN_REC", <<114, 101, 99>>), Ws>> ELSE <<>>)
                        \o <<Tok("TOKEN_CURLY_B_OPEN", <<123>>)>> \o entries
                        \o <<Tok("TOKEN_CURLY_B_CLOSE", <<125>>)>>)

LetIn(entries, body) ==
    Nd("NODE_LET_IN", <<Tok("TOKEN_LET", <<108, 101, 116>>), Ws>> \o entries
                      \o <<Tok("TOKEN_IN", <<105, 110>>), Ws, body>>)

LegacyLet(entries) ==
    Nd("NODE_LEGACY_LET", <<Tok("TOKEN_LET", <<108, 101, 116>>),
                            Tok("TOKEN_CURLY_B_OPEN", <<123>>)>> \o entries
                          \o <<Tok("TOKEN_CURLY_B_CLOSE", <<125>>)>>)

PatEntry(name) == Nd("NODE_PAT_ENTRY", Opt(name) \o <<Tok("TOKEN_COMMA", <<44>>)>>)

Pattern(entries) ==
    Nd("NODE_PATTERN", <<Tok("TOKEN_CURLY_B_OPEN", <<123>>)>> \o entries
                       \o <<Tok("TOKEN_CURLY_B_CLOSE", <<125>>)>>)

Lambda(arg, body) == Nd("NODE_LAMBDA", Opt(arg) \o <<Tok("TOKEN_COLON", <<58>>)>> \o Opt(body))

Root(kids) == Nd("NODE_ROOT", kids)

SeqsUpTo(S, n) == UNION {[1..k -> S] : k \in 0..n}

Segments == {Ident(n) : n \in Names} \cup {Str}

Chains == SeqsUpTo(Segments, MaxChain) \ {<<>>}

SelectTrees == {Root(<<SelectChain(c)>>) : c \in Chains}

KeyTrees == {Root(<<AttrSet(FALSE, <<KeyValue(Some(Key(c)), Some(Value))>>)>>) : c \in Chains}

OtherIdentTrees ==
    {Root(<<>>),
     Root(<<Lambda(Some(Ident(NameA)), Some(Ident(NameB))), Newline>>),
     Root(<<Lambda(Some(Pattern(<<PatEntry(Some(Ident(NameA)))>>)), Some(Value))>>),
     Root(<<LetIn(<<KeyValue(Some(Key(<<Ident(NameA)>>)), Some(Ident(NameB)))>>, Ident(NameA))>>)}

IdentTrees == SelectTrees \cup KeyTrees \cup OtherIdentTrees

(***************************************************************************)
(* The cursor resolver's specification: ident_at applied to every tree of   *)
(* IdentTrees at every offset of its text.                                 *)
(***************************************************************************)
NoScope == [some |-> FALSE, val |-> <<>>]

NoChain == [some |-> FALSE, val |-> <<>>]

InitIdent ==
    /\ pc = "start"
    /\ root \in IdentTrees
    /\ offset \in 0..TextLen(root)
    /\ cursor = CursorNone
    /\ code = <<>> /\ pos = Position(0, 0) /\ off = None /\ back = Position(0, 0)
    /\ node = <<>> /\ scope = NoScope /\ chain = NoChain

CallIdentAt ==
    /\ pc = "start"
    /\ cursor' = ident_at(root, offset)
    /\ pc' = IF cursor'.outcome = "panic" THEN "panicked" ELSE "done"
    /\ UNCHANGED <<code, pos, off, back, root, node, offset, scope, chain>>

NextIdent == CallIdentAt

SpecIdent == InitIdent /\ [][NextIdent]_vars


(***************************************************************************)
(* The dotted chain an identifier belongs to, read off the tree from left  *)
(* to right: the segments of its key path, or the flattened selection      *)
(* expression around it, or the identifier alone.                          *)
(***************************************************************************)
RECURSIVE FlattenSelect(_, _)
FlattenSelect(t, p) ==
    IF KindOf(t, p) = "NODE_SELECT" /\ Len(children(t, p)) = 2
    THEN FlattenSelect(t, children(t, p)[1]) \o <<children(t, p)[2]>>
    ELSE <<p>>

RECURSIVE TopSelect(_, _)
TopSelect(t, p) ==
    IF p # <<>> /\ KindOf(t, parent(p).val) = "NODE_SELECT" /\ children(t, parent(p).val)[1] = p
    THEN TopSelect(t, parent(p).val)
    ELSE p

ChainOf(t, x) ==
    IF x = <<>> THEN <<x>>
    ELSE IF KindOf(t, parent(x).val) = "NODE_KEY" THEN children(t, parent(x).val)
    ELSE IF KindOf(t, parent(x).val) = "NODE_SELECT"
    THEN FlattenSelect(t, TopSelect(t, parent(x).val))
    ELSE <<x>>

PlainChain(t, c) == \A i \in 1..Len(c) : KindOf(t, c[i]) = "NODE_IDENT"

NamesBefore(t, c, x) ==
    LET i == CHOOSE k \in 1..Len(c) : c[k] = x
    IN  [j \in 1..(i - 1) |-> as_str(t, c[j])]

IdentsAtOffset(t, o) ==
    {x \in NodePaths(t) : /\ KindOf(t, x) = "NODE_IDENT"
                          /\ text_range(t, x).start <= o
                          /\ o < text_range(t, x).end}

(* C4: at an offset of the identifier xi of a dotted chain x1.x2...xn of plain
   identifiers (a selection expression or a key path), ident_at returns
   ident = xi and path = [x1, ..., x(i-1)], outer to inner, without xi itself;
   the path is empty for x1 and for an identifier outside any key path or
   selection. *)
C4_ChainPath ==
    pc = "done" =>
        \A x \in IdentsAtOffset(root, offset) :
            PlainChain(root, ChainOf(root, x)) =>
                cursor = CursorSome(NamesBefore(root, ChainOf(root, x), x), x)

C4_Witness ==
    /\ pc = "done"
    /\ root = Root(<<SelectChain(<<Ident(NameA), Ident(NameB), Ident(NameA)>>)>>)
    /\ offset = 5
    /\ cursor = CursorSome(<<NameA, NameB>>, <<1, 3>>)

(* C10: the panic after the key path loop of ident_at is unreachable: when the
   resolved identifier's parent is a key path, the walk over its segments
   returns the cursor info or an absent result before the segments run out. *)
C10_NoPanic ==
    /\ pc # "panicked"
    /\ pc = "done" => cursor.outcome \in {"some", "none"}

C10_Witness ==
    /\ pc = "done"
    /\ IdentOfToken(root, offset).some
    /\ KindOf(root, parent(IdentOfToken(root, offset).val).val) = "NODE_KEY"
    /\ cursor.outcome = "some"
    /\ Len(cursor.path) = 2

C10_WitnessAbsent ==
    /\ pc = "done"
    /\ IdentOfToken(root, offset).some
    /\ KindOf(root, parent(IdentOfToken(root, offset).val).val) = "NODE_KEY"
    /\ cursor.outcome = "none"


(***************************************************************************)
(* The scope builder.  A scope maps a name to its Var; the file handle of   *)
(* a Var is the one file of the query and is left out.                     *)
(***************************************************************************)
Var(set, key, value) == [set |-> set, key |-> key, value |-> value]

Insert(sc, name, var) == [n \in DOMAIN sc \cup {name} |-> IF n = name THEN var ELSE sc[n]]

contains_key(sc, name) == name \in DOMAIN sc

EmptyScope == [n \in {} |-> Var(<<>>, <<>>, NoNode)]

(* EntryHolder::entries, KeyValue::key, KeyValue::value *)
entries(t, p) == Filter(t, children(t, p), "NODE_KEY_VALUE")

key(t, e) == cast(t, nth(t, e, 0), "NODE_KEY")

value(t, e) == nth(t, e, 1)

(* AttrSet::recursive *)
recursive(t, p) == \E i \in 1..Len(At(t, p).kids) : At(t, p).kids[i].kind = "TOKEN_REC"

(***************************************************************************)
(* populate: the for loop over set.entries().  ok is FALSE when a ? left   *)
(* the function early; the scope keeps what was inserted before.           *)
(***************************************************************************)
RECURSIVE PopulateFrom(_, _, _, _)
PopulateFrom(t, sc, set, es) ==
    IF es = <<>> THEN [scope |-> sc, ok |-> TRUE]
    ELSE LET entry == Head(es)
             attr == key(t, entry)
         IN  IF ~attr.some THEN [scope |-> sc, ok |-> FALSE]
             ELSE LET ident == cast(t, nth(t, attr.val, 0), "NODE_IDENT")
                  IN  IF ident.some /\ ~contains_key(sc, as_str(t, ident.val))
                      THEN IF ~value(t, entry).some THEN [scope |-> sc, ok |-> FALSE]
                           ELSE PopulateFrom(t,
                                    Insert(sc, as_str(t, ident.val),
                                           Var(set, ident.val, value(t, entry))),
                                    set, Tail(es))
                      ELSE PopulateFrom(t, sc, set, Tail(es))

populate(t, sc, set) == PopulateFrom(t, sc, set, entries(t, set))

(* the for loop over pattern.entries() in the Lambda arm *)
RECURSIVE PatternFrom(_, _, _, _)
PatternFrom(t, sc, lambda, es) ==
    IF es = <<>> THEN [scope |-> sc, ok |-> TRUE]
    ELSE LET ident == cast(t, nth(t, Head(es), 0), "NODE_IDENT")
         IN  IF ~ident.some THEN [scope |-> sc, ok |-> FALSE]
             ELSE IF ~contains_key(sc, as_str(t, ident.val))
             THEN PatternFrom(t, Insert(sc, as_str(t, ident.val), Var(lambda, ident.val, NoNode)),
                              lambda, Tail(es))
             ELSE PatternFrom(t, sc, lambda, Tail(es))

(* the Lambda arm of the match: ok is FALSE when a ? leaves scope_for *)
LambdaArm(t, sc, lambda) ==
    LET arg == nth(t, lambda, 0)
    IN  IF ~arg.some THEN [scope |-> sc, ok |-> FALSE]
        ELSE IF KindOf(t, arg.val) = "NODE_IDENT"
        THEN [scope |-> IF contains_key(sc, as_str(t, arg.val)) THEN sc
                        ELSE Insert(sc, as_str(t, arg.val), Var(lambda, arg.val, NoNode)),
              ok |-> TRUE]
        ELSE IF KindOf(t, arg.val) = "NODE_PATTERN"
        THEN PatternFrom(t, sc, lambda, Filter(t, children(t, arg.val), "NODE_PAT_ENTRY"))
        ELSE [scope |-> sc, ok |-> TRUE]

(* the while let loop of scope_for, from the query node to the root *)
RECURSIVE ScopeWalk(_, _, _)
ScopeWalk(t, current, sc) ==
    IF ~current.some THEN Some(sc)
    ELSE LET n == current.val
             k == KindOf(t, n)
         IN  IF k \in {"NODE_LET_IN", "NODE_LEGACY_LET"}
             THEN ScopeWalk(t, parent(n), populate(t, sc, n).scope)
             ELSE IF k = "NODE_ATTR_SET"
             THEN ScopeWalk(t, parent(n), IF recursive(t, n) THEN populate(t, sc, n).scope ELSE sc)
             ELSE IF k = "NODE_LAMBDA"
             THEN IF LambdaArm(t, sc, n).ok THEN ScopeWalk(t, parent(n), LambdaArm(t, sc, n).scope)
                  ELSE NoScope
             ELSE ScopeWalk(t, parent(n), sc)

scope_for(t, n) == ScopeWalk(t, Some(n), EmptyScope)

(***************************************************************************)
(* Trees for the scope builder: nests of scoping constructs around a leaf, *)
(* with well-formed and malformed entries and parameters.                  *)
(***************************************************************************)
MaxEntries == 2

MaxDepth == 2

Entry(n, v) == KeyValue(Some(Key(<<Ident(n)>>)), Some(v))

EntryForms ==
    {Entry(NameA, Value), Entry(NameB, Value),
     KeyValue(NoNode, Some(Value)),
     KeyValue(Some(Key(<<Ident(NameA)>>)), NoNode),
     KeyValue(Some(Key(<<Str>>)), Some(Value))}

EntryLists == SeqsUpTo(EntryForms, MaxEntries)

PatForms == {PatEntry(Some(Ident(NameA))), PatEntry(Some(Ident(NameB))), PatEntry(NoNode)}

Args == {Ident(NameA), Ident(NameB), Value} \cup {Pattern(ps) : ps \in SeqsUpTo(PatForms, MaxEntries)}

(* the index of the last kid of term that is the term c *)
Hole(term, c) ==
    CHOOSE i \in 1..Len(term.kids) :
        term.kids[i] = c /\ \A j \in (i + 1)..Len(term.kids) : term.kids[j] # c

(* a construct around the spine c, as its body or as the value of its last entry *)
AsBody(term, c) == [tree |-> term, at |-> <<Hole(term, c.tree)>> \o c.at]

AsValue(term, c) ==
    [tree |-> term,
     at |-> <<Hole(term, Entry(NameB, c.tree)), Hole(Entry(NameB, c.tree), c.tree)>> \o c.at]

(* the scoping constructs that can surround a spine, by kind, entries and parameter *)
WrapForms ==
    {[kind |-> k, rec |-> FALSE, es |-> es, arg |-> Value] :
        k \in {"NODE_LET_IN", "NODE_LEGACY_LET"}, es \in EntryLists}
    \cup {[kind |-> "NODE_ATTR_SET", rec |-> r, es |-> es, arg |-> Value] :
            r \in BOOLEAN, es \in EntryLists}
    \cup {[kind |-> "NODE_LAMBDA", rec |-> FALSE, es |-> <<>>, arg |-> arg] : arg \in Args}

Wrap(w, c) ==
    IF w.kind = "NODE_LET_IN" THEN AsBody(LetIn(w.es, c.tree), c)
    ELSE IF w.kind = "NODE_LEGACY_LET"
    THEN AsValue(LegacyLet(w.es \o <<Entry(NameB, c.tree)>>), c)
    ELSE IF w.kind = "NODE_ATTR_SET"
    THEN AsValue(AttrSet(w.rec, w.es \o <<Entry(NameB, c.tree)>>), c)
    ELSE AsBody(Lambda(Some(w.arg), Some(c.tree)), c)

Leaves == {[tree |-> Ident(NameA), at |-> <<>>], [tree |-> Lambda(NoNode, NoNode), at |-> <<>>]}

(* the constructs ws, outermost first, around the leaf *)
RECURSIVE Spine(_, _)
Spine(ws, leaf) == IF Len(ws) = 0 THEN leaf ELSE Wrap(ws[1], Spine(Tail(ws), leaf))

ScopeInput(ws, leaf) == AsBody(Root(<<Spine(ws, leaf).tree>>), Spine(ws, leaf))

InitScope ==
    /\ pc = "start"
    /\ \E k \in 0..MaxDepth : \E ws \in [1..k -> WrapForms] : \E leaf \in Leaves :
            /\ root = ScopeInput(ws, leaf).tree
            /\ node = ScopeInput(ws, leaf).at
    /\ scope = NoScope
    /\ code = <<>> /\ pos = Position(0, 0) /\ off = None /\ back = Position(0, 0)
    /\ offset = 0 /\ cursor = CursorNone /\ chain = NoChain

CallScopeFor ==
    /\ pc = "start"
    /\ scope' = scope_for(root, node)
    /\ pc' = "done"
    /\ UNCHANGED <<code, pos, off, back, root, node, offset, cursor, chain>>

NextScope == CallScopeFor

SpecScope == InitScope /\ [][NextScope]_vars


(***************************************************************************)
(* What the scoping constructs of a tree bind, read off the tree.          *)
(***************************************************************************)
AncestorsOrSelf(n) == {SubSeq(n, 1, k) : k \in 0..Len(n)}

Range(sq) == {sq[i] : i \in 1..Len(sq)}

(* an entry with a key path that starts with a plain identifier, and a value *)
WellFormedEntry(t, e) ==
    /\ key(t, e).some
    /\ cast(t, nth(t, key(t, e).val, 0), "NODE_IDENT").some
    /\ value(t, e).some

EntryName(t, e) == as_str(t, nth(t, key(t, e).val, 0).val)

IsBindingSet(t, s) ==
    \/ KindOf(t, s) \in {"NODE_LET_IN", "NODE_LEGACY_LET"}
    \/ KindOf(t, s) = "NODE_ATTR_SET" /\ recursive(t, s)

(* the Vars a scoping construct introduces *)
BindingsOf(t, s) ==
    IF IsBindingSet(t, s)
    THEN {Var(s, nth(t, key(t, e).val, 0).val, value(t, e)) :
            e \in {e \in Range(entries(t, s)) : WellFormedEntry(t, e)}}
    ELSE IF KindOf(t, s) = "NODE_LAMBDA" /\ nth(t, s, 0).some
    THEN IF KindOf(t, nth(t, s, 0).val) = "NODE_IDENT"
         THEN {Var(s, nth(t, s, 0).val, NoNode)}
         ELSE IF KindOf(t, nth(t, s, 0).val) = "NODE_PATTERN"
         THEN {Var(s, nth(t, e, 0).val, NoNode) :
                e \in {e \in Range(Filter(t, children(t, nth(t, s, 0).val), "NODE_PAT_ENTRY")) :
                        cast(t, nth(t, e, 0), "NODE_IDENT").some}}
         ELSE {}
    ELSE {}

Binds(t, s, name) == \E v \in BindingsOf(t, s) : as_str(t, v.key) = name

(* the innermost construct around n (or n itself) that binds the name *)
Binders(t, n, name) == {s \in AncestorsOrSelf(n) : Binds(t, s, name)}

Innermost(ss) == CHOOSE s \in ss : \A r \in ss : Len(r) <= Len(s)

(* C1: every Var of the scope scope_for returns is a binding of its name
   introduced by the innermost ancestor-or-self scoping construct (let-in,
   legacy let, recursive set, lambda) that binds that name. *)
C1_InnermostBinding ==
    (pc = "done" /\ scope.some) =>
        \A name \in DOMAIN scope.val :
            /\ Binders(root, node, name) # {}
            /\ scope.val[name] \in BindingsOf(root, Innermost(Binders(root, node, name)))
            /\ as_str(root, scope.val[name].key) = name

AttrSetsAround(t, n) == {s \in AncestorsOrSelf(n) : KindOf(t, s) = "NODE_ATTR_SET"}

(* C5: an attribute set on the ancestor chain contributes its entries' names
   to the returned scope if and only if it is marked recursive. *)
C5_RecursiveOnly ==
    (pc = "done" /\ scope.some) =>
        \A s \in AttrSetsAround(root, node) :
            /\ recursive(root, s) =>
                \A e \in Range(entries(root, s)) :
                    WellFormedEntry(root, e) => EntryName(root, e) \in DOMAIN scope.val
            /\ ~recursive(root, s) =>
                \A name \in DOMAIN scope.val : scope.val[name].set # s

(* C7: scope_for never returns an absent result. *)
C7_NeverFails == pc = "done" => scope.some

(* C9: a malformed entry of a let-in, legacy let or recursive set costs only
   itself: every well-formed entry of every binding set on the ancestor chain,
   before or after a malformed one, has its name in the returned scope. *)
C9_EntryLevelDegradation ==
    (pc = "done" /\ scope.some) =>
        \A s \in AncestorsOrSelf(node) :
            IsBindingSet(root, s) =>
                \A v \in BindingsOf(root, s) : as_str(root, v.key) \in DOMAIN scope.val


(***************************************************************************)
(* The position mapper's specification: lookup_pos on every text over the  *)
(* alphabet and every position of the grid, then offset_to_pos on the      *)
(* offset it returned.                                                     *)
(***************************************************************************)
Texts == SeqsUpTo(Alphabet, MaxLen)

Positions == {Position(l, c) : l \in 0..MaxLine, c \in 0..MaxCharacter}

InitPos ==
    /\ pc = "start"
    /\ code \in Texts
    /\ pos \in Positions
    /\ off = None /\ back = Position(0, 0)
    /\ root = Root(<<>>) /\ node = <<>> /\ offset = 0
    /\ cursor = CursorNone /\ scope = NoScope /\ chain = NoChain

CallLookupPos ==
    /\ pc = "start"
    /\ off' = lookup_pos(code, pos)
    /\ pc' = "looked"
    /\ UNCHANGED <<code, pos, back, root, node, offset, cursor, scope, chain>>

CallOffsetToPos ==
    /\ pc = "looked"
    /\ off.some
    /\ IF IsCharBoundary(code, off.val)
       THEN back' = offset_to_pos(code, off.val) /\ pc' = "mapped"
       ELSE back' = back /\ pc' = "panicked"
    /\ UNCHANGED <<code, pos, off, root, node, offset, cursor, scope, chain>>

NextPos == CallLookupPos \/ CallOffsetToPos

SpecPos == InitPos /\ [][NextPos]_vars

(* the lines of a text and the UTF-16 columns of a line *)
LineCount(text) == Len(Split(text))

LineOf(text, l) == Split(text)[l + 1]

LineStart(text, l) ==
    LET ls == Split(text)
        RECURSIVE Sum(_)
        Sum(i) == IF i = 0 THEN 0 ELSE Utf8Len(ls[i]) + 1 + Sum(i - 1)
    IN  Sum(l)

(* the prefixes of a line whose UTF-16 length is c: none when c falls inside a
   surrogate pair or beyond the line *)
PrefixesAt(line, c) == {k \in 0..Len(line) : Utf16Len(SubSeq(line, 1, k)) = c}

ValidPosition(text, p) ==
    /\ p.line < LineCount(text)
    /\ PrefixesAt(LineOf(text, p.line), p.character) # {}

InBounds(text, p) ==
    /\ p.line < LineCount(text)
    /\ p.character <= Utf16Len(LineOf(text, p.line))

(* C2: for every valid position p of a text, lookup_pos succeeds and
   offset_to_pos of its offset is p again, also on lines with characters
   outside the basic multilingual plane. *)
C2_RoundTrip ==
    /\ (pc = "looked" /\ ValidPosition(code, pos)) => off.some
    /\ ValidPosition(code, pos) => pc # "panicked"
    /\ (pc = "mapped" /\ ValidPosition(code, pos)) => back = pos

(* C3: lookup_pos consumes pos.character in UTF-16 code units: the offset is
   the start byte of the line plus the UTF-8 length of the prefix of the line
   whose UTF-16 length is pos.character. *)
C3_Utf16Units ==
    (pc = "looked" /\ ValidPosition(code, pos)) =>
        \A k \in PrefixesAt(LineOf(code, pos.line), pos.character) :
            off = Some(LineStart(code, pos.line)
                       + Utf8Len(SubSeq(LineOf(code, pos.line), 1, k)))

(* C8: lookup_pos returns an absent result for every position outside the
   text (no such line, or a line shorter than pos.character UTF-16 units) and
   an offset only for positions inside it. *)
C8_OutOfBoundsAbsent == pc = "looked" => (off.some <=> InBounds(code, pos))

(***************************************************************************)
(* selection_ranges.  The chain is the sequence of ranges from the         *)
(* innermost entry outwards.                                               *)
(***************************************************************************)
left_biased(tok) == IF tok.kind = "None" THEN NoNode ELSE Some(tok.left)

(* SyntaxToken::ancestors: the parent, its parent, ... up to the root *)
RECURSIVE ancestors(_)
ancestors(p) == IF p = <<>> THEN <<>> ELSE <<parent(p).val>> \o ancestors(parent(p).val)

SameNode(last, par) == last = Some(par)

(* the for loop over node.ancestors() *)
RECURSIVE EmitRanges(_, _, _, _)
EmitRanges(t, content, ancs, last) ==
    IF ancs = <<>> THEN <<>>
    ELSE IF SameNode(last, Head(ancs)) THEN EmitRanges(t, content, Tail(ancs), last)
    ELSE <<range(content, text_range(t, Head(ancs)))>>
         \o EmitRanges(t, content, Tail(ancs), Some(Head(ancs)))

selection_ranges(t, content, p) ==
    LET o == lookup_pos(content, p)
        tok == IF o.some THEN left_biased(token_at_offset(t, o.val)) ELSE NoNode
    IN  IF ~o.some \/ ~tok.some THEN NoChain
        ELSE IF EmitRanges(t, content, ancestors(tok.val), NoNode) = <<>> THEN NoChain
        ELSE Some(EmitRanges(t, content, ancestors(tok.val), NoNode))

SelectionTrees == IdentTrees

InitSel ==
    /\ pc = "start"
    /\ root \in SelectionTrees
    /\ code = Text(root)
    /\ pos \in Positions
    /\ chain = NoChain
    /\ off = None /\ back = Position(0, 0) /\ node = <<>> /\ offset = 0
    /\ cursor = CursorNone /\ scope = NoScope

CallSelectionRanges ==
    /\ pc = "start"
    /\ chain' = selection_ranges(root, code, pos)
    /\ pc' = "done"
    /\ UNCHANGED <<code, pos, off, back, root, node, offset, cursor, scope>>

NextSel == CallSelectionRanges

SpecSel == InitSel /\ [][NextSel]_vars

PosLeq(p, q) == p.line < q.line \/ (p.line = q.line /\ p.character <= q.character)

Encloses(outer, inner) == PosLeq(outer.start, inner.start) /\ PosLeq(inner.end, outer.end)

(* C6: in every chain selection_ranges returns, each entry's range encloses
   the range of the entry before it and no two consecutive entries have the
   same span. *)
C6_NestedDistinct ==
    (pc = "done" /\ chain.some) =>
        \A i \in 1..(Len(chain.val) - 1) :
            /\ Encloses(chain.val[i + 1], chain.val[i])
            /\ chain.val[i + 1] # chain.val[i]

====
